---- MODULE Spec2Model ----
(***************************************************************************)
(* Model of the metadata slideshow helper: the scan cache of MediaScanner  *)
(* (scanner.py) and the advancement state machine of SlideshowCoordinator  *)
(* (__init__.py), then apply_filters, MediaScanner.scan and                *)
(* _read_metadata called on their own, scan_and_filter run by two threads  *)
(* at once, and the image view of the older slideshow_helper component     *)
(* (http.py).  Time is the wall clock read by time.time(), in whole        *)
(* seconds.                                                                *)
(***************************************************************************)
EXTENDS Integers, Sequences, FiniteSets, TLC

(***************************************************************************)
(* Bounds of the model                                                     *)
(***************************************************************************)
MaxFiles == 3        \* image files that can exist under the roots
MaxTime == 3         \* seconds of wall clock explored after construction
MaxInterval == 2     \* largest advance_interval / rescan_interval
MaxSeqLen == 2       \* largest smart_random_sequence_length
MaxRecords == 2      \* longest record list handed directly to apply_filters
MaxRoots == 2        \* longest list of roots handed to a scan
ScenarioInterval == 10 \* advance interval of the once-per-second scenario
ScenarioTicks == 25  \* polls explored in the once-per-second scenario
MaxWarnPolls == 3    \* polls explored in the no-match warning scenario
MaxPathLen == 3      \* most path components of a requested image_path
MaxStretchPolls == 3 \* polls explored in the empty-stretch scenario

(***************************************************************************)
(* Program constants                                                       *)
(***************************************************************************)
WARN_COOLDOWN == 3600
NoPath == 0          \* current_path = None

SEQUENTIAL == "sequential"
SMART_RANDOM == "smart_random"
AdvanceModes == {SEQUENTIAL, SMART_RANDOM}
\* a mode value outside the enum, handed directly to the constructor
UnknownMode == "shuffle"

\* time.time() when the objects are constructed: far from the epoch 0.0 that
\* last_scan and last_warn_time start at
StartTime == WARN_COOLDOWN + MaxInterval

Paths == 1..MaxFiles

\* the clock may or may not tick between the scanner's and the coordinator's reading
ScanDelays == {0, 1}

(***************************************************************************)
(* Files and their metadata                                                *)
(***************************************************************************)
\* str.lower() on the tag strings that occur
Lower(s) ==
    CASE s = "Vacation" -> "vacation"
      [] s = "Family" -> "family"
      [] s = "Private" -> "private"
      [] OTHER -> s

\* what _read_metadata returns for each file
ImageMeta(p) ==
    CASE p = 1 -> [path |-> p, tags |-> <<"Vacation">>, rating |-> 5]
      [] p = 2 -> [path |-> p, tags |-> <<>>, rating |-> 0]
      [] OTHER -> [path |-> p, tags |-> <<"vacation", "Family">>, rating |-> 3]

RECURSIVE ScanFrom(_, _)
ScanFrom(files, p) ==
    IF p > MaxFiles THEN <<>>
    ELSE (IF p \in files THEN <<ImageMeta(p)>> ELSE <<>>) \o ScanFrom(files, p + 1)

\* MediaScanner.scan: one record per readable image file, in traversal order
scan(files) == ScanFrom(files, 1)

Range(s) == {s[i] : i \in 1..Len(s)}

\* slip: one of the include tags is enough
AcceptsAnyIncludeTag(item, include_tags, exclude_tags, min_rating) ==
    LET inc == {Lower(t) : t \in Range(include_tags)}
        exc == {Lower(t) : t \in Range(exclude_tags)}
        tset == {Lower(t) : t \in Range(item.tags)}
    IN  /\ ~(inc # {} /\ (inc \cap tset) = {})
        /\ ~(exc # {} /\ (tset \cap exc) # {})
        /\ ~(item.rating < min_rating)

\* slip: a record is excluded only when it carries all of the exclude tags
AcceptsExcludingOnAllTags(item, include_tags, exclude_tags, min_rating) ==
    LET inc == {Lower(t) : t \in Range(include_tags)}
        exc == {Lower(t) : t \in Range(exclude_tags)}
        tset == {Lower(t) : t \in Range(item.tags)}
    IN  /\ ~(inc # {} /\ ~(inc \subseteq tset))
        /\ ~(exc # {} /\ exc \subseteq tset)
        /\ ~(item.rating < min_rating)

\* slip: a rating equal to min_rating is rejected
AcceptsAboveMinRating(item, include_tags, exclude_tags, min_rating) ==
    LET inc == {Lower(t) : t \in Range(include_tags)}
        exc == {Lower(t) : t \in Range(exclude_tags)}
        tset == {Lower(t) : t \in Range(item.tags)}
    IN  /\ ~(inc # {} /\ ~(inc \subseteq tset))
        /\ ~(exc # {} /\ (tset \cap exc) # {})
        /\ ~(item.rating <= min_rating)

\* one iteration of the loop of apply_filters: does the item pass?
Accepts(item, include_tags, exclude_tags, min_rating) ==
    LET inc == {Lower(t) : t \in Range(include_tags)}
        exc == {Lower(t) : t \in Range(exclude_tags)}
        tset == {Lower(t) : t \in Range(item.tags)}
    IN  /\ ~(inc # {} /\ ~(inc \subseteq tset))
        /\ ~(exc # {} /\ (tset \cap exc) # {})
        /\ ~(item.rating < min_rating)

RECURSIVE apply_filters(_, _, _, _)
apply_filters(discovered_items, include_tags, exclude_tags, min_rating) ==
    IF discovered_items = <<>> THEN <<>>
    ELSE (IF Accepts(Head(discovered_items), include_tags, exclude_tags, min_rating)
          THEN <<Head(discovered_items)>> ELSE <<>>)
         \o apply_filters(Tail(discovered_items), include_tags, exclude_tags, min_rating)

(***************************************************************************)
(* State                                                                   *)
(***************************************************************************)
VARIABLES
    now,            \* the wall clock, as last read by time.time()
    disk,           \* the image files under the roots when they were last looked at
    conf,           \* constructor arguments of MediaScanner and SlideshowCoordinator
    cached_items,   \* MediaScanner.cached_items
    last_scan,      \* MediaScanner.last_scan
    last_warn_time, \* MediaScanner.last_warn_time
    state,          \* SlideshowCoordinator.state (AdvancementState)
    ret,            \* what the last poll did and returned
    jumps,          \* smart-random jump flags of the current run of advancing polls
    calls,          \* what the most recent polls of a scenario did
    args,           \* arguments of a direct call (apply_filters, scan, the image
                    \* view), or the position and locals of the scanning threads
    result          \* what the direct calls returned or observed

vars == <<now, disk, conf, cached_items, last_scan, last_warn_time, state, ret,
          jumps, calls, args, result>>

\* the filter settings explored
FilterConfigs ==
    { [include_tags |-> <<>>, exclude_tags |-> <<>>, min_rating |-> 0],
      [include_tags |-> <<"vacation">>, exclude_tags |-> <<>>, min_rating |-> 3] }

\* the mode settings explored: the sequence length matters in smart-random mode only
ModeConfigs ==
    {[advance_mode |-> SMART_RANDOM, smart_random_sequence_length |-> k] :
        k \in 1..MaxSeqLen}
    \cup {[advance_mode |-> m, smart_random_sequence_length |-> MaxSeqLen] :
             m \in {SEQUENTIAL, UnknownMode}}

\* AdvancementState() as built by the constructor at time t
AdvancementState(t) ==
    [advance_index |-> 0, last_advance |-> t, smart_random_counter |-> 0]

\* no direct call of apply_filters or scan is made while the coordinator polls
NoArgs == <<>>

NoCall ==
    [called |-> FALSE, scan_time |-> 0, scanned |-> FALSE, warned |-> FALSE,
     matching |-> <<>>, advanced |-> FALSE, jumped |-> FALSE, pick |-> 0,
     clamped |-> FALSE, err |-> "none", current_path |-> NoPath]

\* state after MediaScanner.__init__ and SlideshowCoordinator.__init__
InitWith(modes, intervals, rescans, filters, disks) ==
    /\ now = StartTime
    /\ disk \in disks
    /\ conf \in [mode : modes, advance_interval : intervals,
                 rescan_interval : rescans, filter : filters,
                 warn_cooldown : {WARN_COOLDOWN}]
    /\ cached_items = <<>>
    /\ last_scan = 0
    /\ last_warn_time = 0
    /\ state = AdvancementState(StartTime)
    /\ ret = NoCall
    /\ jumps = <<>>
    /\ calls = <<>>
    /\ args = NoArgs
    /\ result = NoArgs

Init == InitWith(ModeConfigs, 1..MaxInterval, {MaxInterval}, FilterConfigs, {{}})

(***************************************************************************)
(* MediaScanner.scan_and_filter                                            *)
(***************************************************************************)
\* the rescan condition
CacheStale(cached, current_time, last, rescan_interval) ==
    cached = <<>> \/ (current_time - last) >= rescan_interval

\* slip: the cooldown is not looked at
WarnDueIgnoringCooldown(matching_items, current_time, last_warn, cooldown) ==
    matching_items = <<>>

\* the no-match warning condition
WarnDue(matching_items, current_time, last_warn, cooldown) ==
    matching_items = <<>> /\ (current_time - last_warn) >= cooldown

\* slip: the cooldown is not reset when images are found
NextWarnTimeWithoutReset(matching_items, current_time, last_warn, cooldown) ==
    IF WarnDue(matching_items, current_time, last_warn, cooldown) THEN current_time
    ELSE last_warn

\* the value of last_warn_time when scan_and_filter returns
NextWarnTime(matching_items, current_time, last_warn, cooldown) ==
    IF WarnDue(matching_items, current_time, last_warn, cooldown) THEN current_time
    ELSE IF matching_items # <<>> THEN 0
    ELSE last_warn

(***************************************************************************)
(* SlideshowCoordinator.async_update_data                                  *)
(***************************************************************************)
\* slip: the interval must be exceeded, not merely reached
IntervalElapsedStrict(current_time, last_advance, advance_interval) ==
    current_time - last_advance > advance_interval

IntervalElapsed(current_time, last_advance, advance_interval) ==
    current_time - last_advance >= advance_interval

\* slip: the elapsed-time test is dropped
ShouldAdvanceIgnoringInterval(matching_items, current_time, last_advance, advance_interval) ==
    matching_items # <<>>

ShouldAdvance(matching_items, current_time, last_advance, advance_interval) ==
    matching_items # <<>> /\ IntervalElapsed(current_time, last_advance, advance_interval)

\* slip: one poll too late
JumpDueStrict(counter, sequence_length) == counter > sequence_length

\* the smart-random jump condition, on the counter already incremented
JumpDue(counter, sequence_length) == counter >= sequence_length

\* slip: every other item is skipped
NextIndexByTwo(index, n) == (index + 2) % n

\* slip: the index is not moved on
NextIndexStaying(index, n) == index % n

NextIndex(index, n) == (index + 1) % n

\* slip: the modulo is left out
ClampIndexNoModulo(index, n) == index

ClampIndex(index, n) == index % n

\* slip: any other mode is silently treated as sequential
ModeErrorIgnored(mode) == FALSE

\* the unknown-mode branch: raise ValueError
ModeError(mode) == mode # SMART_RANDOM /\ mode # SEQUENTIAL

\* slip: the jump does not start a new sequence
AdvanceWithoutCounterReset(st, n, current_time, mode, sequence_length, r) ==
    LET counter == st.smart_random_counter + 1
        jump == mode = SMART_RANDOM /\ JumpDue(counter, sequence_length)
        index == IF jump THEN r ELSE st.advance_index
    IN  [advance_index |-> NextIndex(index, n),
         last_advance |-> current_time,
         smart_random_counter |->
             IF mode = SMART_RANDOM THEN counter ELSE st.smart_random_counter]

\* slip: last_advance is not brought up to the time of the advance
AdvanceKeepingLastAdvance(st, n, current_time, mode, sequence_length, r) ==
    [st EXCEPT !.advance_index = (st.advance_index + 1) % n]

\* the body of "if matching_items and time_since_advance >= advance_interval"
\* when it does not raise; r is the value random.randint returns
Advance(st, n, current_time, mode, sequence_length, r) ==
    LET counter == st.smart_random_counter + 1
        jump == mode = SMART_RANDOM /\ JumpDue(counter, sequence_length)
        index == IF jump THEN r ELSE st.advance_index
    IN  [advance_index |-> NextIndex(index, n),
         last_advance |-> current_time,
         smart_random_counter |->
             IF mode = SMART_RANDOM THEN (IF jump THEN 0 ELSE counter)
             ELSE st.smart_random_counter]

\* slip: the advance is timestamped before the mode is looked at
StateOnErrorTimestamped(st, current_time) == [st EXCEPT !.last_advance = current_time]

\* the state a poll leaves when it raises ValueError: the raise comes before the
\* assignments to advance_index and last_advance, and the unknown-mode branch
\* assigns nothing
StateOnError(st, current_time) == st

\* slip: an empty matching set resets the index
ClampResettingOnEmpty(st, n) ==
    [st EXCEPT !.advance_index = IF n > 0 THEN ClampIndex(st.advance_index, n) ELSE 0]

\* "if matching_items: advance_index = advance_index % len(matching_items)"
Clamp(st, n) ==
    IF n > 0 THEN [st EXCEPT !.advance_index = ClampIndex(st.advance_index, n)] ELSE st

\* matching_items[index].path; NoPath stands for the IndexError of a bad index
ItemPath(matching_items, index) ==
    IF index < Len(matching_items) THEN matching_items[index + 1].path ELSE NoPath

Window(s, k) == IF Len(s) > k THEN SubSeq(s, Len(s) - k + 1, Len(s)) ELSE s

\* The coordinator's part of a poll, once scan_and_filter has returned the
\* matching items: the advance, the clamp and the result.  scan_time and
\* current_time are the clock as the scanner and as the coordinator read it; stale
\* tells whether the scanner scanned.
Coordinate(scan_time, current_time, stale, matching) ==
    LET n == Len(matching)
        mode == conf.mode.advance_mode
        seqlen == conf.mode.smart_random_sequence_length
        adv == ShouldAdvance(matching, current_time, state.last_advance,
                             conf.advance_interval)
        raise == adv /\ ModeError(mode)
        jump == adv /\ mode = SMART_RANDOM
                    /\ JumpDue(state.smart_random_counter + 1, seqlen)
    IN  \* r is the index random.randint(0, len(matching_items) - 1) returns
        /\ \E r \in (IF jump THEN 0..(n - 1) ELSE {0}) :
             LET st1 == IF adv /\ ~raise
                        THEN Advance(state, n, current_time, mode, seqlen, r)
                        ELSE state
                 st == IF raise THEN StateOnError(state, current_time)
                       ELSE Clamp(st1, n)
                 oob == n > 0 /\ ~raise /\ st.advance_index >= n
             IN  /\ state' = st
                 /\ ret' = [called |-> TRUE, scan_time |-> scan_time,
                            scanned |-> stale,
                            warned |-> WarnDue(matching, scan_time, last_warn_time,
                                               conf.warn_cooldown),
                            matching |-> matching,
                            advanced |-> adv /\ ~raise, jumped |-> jump, pick |-> r,
                            clamped |-> ~raise /\ n > 0 /\ st1.advance_index >= n,
                            err |-> IF raise THEN "ValueError"
                                    ELSE IF oob THEN "IndexError" ELSE "none",
                            current_path |-> IF n > 0 /\ ~raise
                                             THEN ItemPath(matching, st.advance_index)
                                             ELSE NoPath]
        /\ jumps' = IF mode = SMART_RANDOM /\ adv
                    THEN Window(Append(jumps, jump), seqlen)
                    ELSE <<>>

\* One poll: scan_and_filter reads the clock at now + d1, the coordinator reads it
\* at now + d1 + d2; files are the image files a scan finds under the roots.
Poll(d1, d2, files) ==
    LET scan_time == now + d1
        current_time == scan_time + d2
        stale == CacheStale(cached_items, scan_time, last_scan, conf.rescan_interval)
    IN  \E discovered \in {IF stale THEN scan(files) ELSE cached_items} :
        \E matching \in {apply_filters(discovered, conf.filter.include_tags,
                                       conf.filter.exclude_tags,
                                       conf.filter.min_rating)} :
            /\ now' = current_time
            /\ cached_items' = discovered
            /\ last_scan' = IF stale THEN scan_time ELSE last_scan
            /\ last_warn_time' = NextWarnTime(matching, scan_time, last_warn_time,
                                              conf.warn_cooldown)
            /\ Coordinate(scan_time, current_time, stale, matching)
            /\ disk' = IF stale THEN files ELSE disk
            /\ UNCHANGED conf

\* the files a poll at scanner time t can find: whatever is under the roots when it
\* scans, and nothing new when it does not look
FilesSeen(t) ==
    IF CacheStale(cached_items, t, last_scan, conf.rescan_interval)
    THEN SUBSET Paths ELSE {disk}

\* a poll at an arbitrary time after the previous one, files having come and gone
Tick ==
    /\ \E d1 \in 0..MaxTime, d2 \in ScanDelays :
           /\ now + d1 + d2 <= StartTime + MaxTime
           /\ \E files \in FilesSeen(now + d1) : Poll(d1, d2, files)
    /\ UNCHANGED <<calls, args, result>>

\* a poll exactly one second after the previous one
TickEverySecond ==
    /\ now + 1 <= StartTime + ScenarioTicks
    /\ \E d2 \in ScanDelays : Poll(1 - d2, d2, disk)
    /\ calls' = Window(Append(calls, ret'.advanced), conf.advance_interval)
    /\ UNCHANGED <<args, result>>

Next == Tick

\* every configuration, polls at arbitrary times, files coming and going between scans
Spec == Init /\ [][Next]_vars

ModeIs(m) == {c \in ModeConfigs : c.advance_mode = m}

InitSequential ==
    InitWith(ModeIs(SEQUENTIAL), 1..MaxInterval, {MaxInterval}, FilterConfigs, {{}})

SpecSequential == InitSequential /\ [][Next]_vars

InitSmartRandom ==
    InitWith(ModeIs(SMART_RANDOM), 1..MaxInterval, {MaxInterval}, FilterConfigs, {{}})

SpecSmartRandom == InitSmartRandom /\ [][Next]_vars

InitUnknownMode ==
    InitWith(ModeIs(UnknownMode), 1..MaxInterval, {MaxInterval}, FilterConfigs, {{}})

SpecUnknownMode == InitUnknownMode /\ [][Next]_vars

\* the once-per-second scenario: sequential mode, a fixed non-empty matching set
MatchingOn(files, f) ==
    apply_filters(scan(files), f.include_tags, f.exclude_tags, f.min_rating)

InitEverySecond ==
    /\ InitWith(ModeIs(SEQUENTIAL), {ScenarioInterval}, {MaxInterval}, FilterConfigs,
                SUBSET Paths)
    /\ MatchingOn(disk, conf.filter) # <<>>

NextEverySecond == TickEverySecond

SpecEverySecond == InitEverySecond /\ [][NextEverySecond]_vars

(***************************************************************************)
(* The no-match warning scenario: a few polls, seconds or about an hour    *)
(* apart, over files that match the filter or do not                       *)
(***************************************************************************)
\* seconds between two polls
WarnSteps == {0, 1, WARN_COOLDOWN - 1, WARN_COOLDOWN}

\* what a scan can find: nothing, a file every filter accepts, a file the tag
\* filter rejects
WarnFiles == {{}, {1}, {2}}

\* what a poll of the scenario leaves in calls: when the scanner read the clock,
\* whether it logged the warning, whether the filtered view was empty
PollSeen(r) == [t |-> r.scan_time, warned |-> r.warned, empty |-> r.matching = <<>>]

TickWarn ==
    /\ Len(calls) < MaxWarnPolls
    /\ \E d1 \in WarnSteps :
         \E files \in (IF CacheStale(cached_items, now + d1, last_scan,
                                     conf.rescan_interval)
                       THEN WarnFiles ELSE {disk}) :
            Poll(d1, 0, files)
    /\ calls' = Append(calls, PollSeen(ret'))
    /\ UNCHANGED <<args, result>>

InitWarn ==
    InitWith(ModeIs(SEQUENTIAL), {MaxInterval}, {MaxInterval}, FilterConfigs, {{}})

NextWarn == TickWarn

SpecWarn == InitWarn /\ [][NextWarn]_vars

(***************************************************************************)
(* The empty-stretch scenario: a few polls in every mode, at once, an      *)
(* advance interval or a rescan interval after the previous one, the       *)
(* images coming and going between scans                                   *)
(***************************************************************************)
StretchFiles == {{}, {1}, {1, 2}}

\* what a poll of the scenario leaves in calls: the coordinator's clock, the
\* matching set it saw, what it did and the state it left
TickSeen(r, st, current_time) ==
    [t |-> current_time, n |-> Len(r.matching), advanced |-> r.advanced,
     jumped |-> r.jumped, err |-> r.err, current_path |-> r.current_path,
     advance_index |-> st.advance_index, last_advance |-> st.last_advance]

TickStretch ==
    /\ Len(calls) < MaxStretchPolls
    /\ \E d1 \in {0, conf.advance_interval, conf.rescan_interval} :
         \E files \in (IF CacheStale(cached_items, now + d1, last_scan,
                                     conf.rescan_interval)
                       THEN StretchFiles ELSE {disk}) :
            Poll(d1, 0, files)
    /\ calls' = Append(calls, TickSeen(ret', state', now'))
    /\ UNCHANGED <<args, result>>

InitStretch ==
    InitWith(ModeConfigs, 1..MaxInterval, {MaxInterval},
             {f \in FilterConfigs : f.include_tags = <<>>}, {{}})

NextStretch == TickStretch

SpecStretch == InitStretch /\ [][NextStretch]_vars

(***************************************************************************)
(* The cycle scenario: sequential mode over a fixed non-empty matching     *)
(* set, polled again and again with the clock advancing between polls.     *)
(* The host's DataUpdateCoordinator re-arms its timer after every refresh, *)
(* so a poll that is due is eventually made.                               *)
(***************************************************************************)
\* seconds explored: enough for one advance per file at the slowest pace, an
\* advance being due at most 2 * MaxInterval - 1 seconds after the previous one
CycleHorizon == MaxFiles * 2 * MaxInterval

\* calls holds the indices the most recent advancing polls returned, one per item
\* of the matching set at most
TickCycle ==
    /\ \E d1 \in 1..MaxInterval :
         /\ now + d1 <= StartTime + CycleHorizon
         /\ Poll(d1, 0, disk)
    /\ calls' = IF ret'.advanced
                THEN Window(Append(calls, state'.advance_index), Len(ret'.matching))
                ELSE calls
    /\ UNCHANGED <<args, result>>

InitCycle ==
    /\ InitWith(ModeIs(SEQUENTIAL), 1..MaxInterval, {MaxInterval}, FilterConfigs,
                SUBSET Paths)
    /\ MatchingOn(disk, conf.filter) # <<>>

NextCycle == TickCycle

SpecCycle == InitCycle /\ [][NextCycle]_vars /\ WF_vars(NextCycle)

(***************************************************************************)
(* apply_filters called directly, as the tests call it                     *)
(***************************************************************************)
\* records a scan can hand over: tags and ratings as they were read from the files
FilterRecords ==
    { [path |-> 1, tags |-> <<"Vacation">>, rating |-> 5],
      [path |-> 2, tags |-> <<>>, rating |-> 0],
      [path |-> 3, tags |-> <<"vacation", "Family">>, rating |-> 3],
      [path |-> 4, tags |-> <<"vacation", "family", "Private">>, rating |-> 5],
      [path |-> 5, tags |-> <<"family">>, rating |-> 4],
      [path |-> 6, tags |-> <<>>, rating |-> -1] }

RECURSIVE SeqsUpTo(_, _)
SeqsUpTo(S, n) ==
    IF n = 0 THEN {<<>>}
    ELSE LET shorter == SeqsUpTo(S, n - 1)
         IN  shorter \cup {Append(q, x) : q \in shorter, x \in S}

\* the arguments explored: record lists and criteria
FilterCalls ==
    [discovered_items : SeqsUpTo(FilterRecords, MaxRecords),
     include_tags : {<<>>, <<"vacation">>, <<"Vacation", "family">>},
     exclude_tags : {<<>>, <<"Private">>, <<"private", "draft">>},
     min_rating : {0, 3, 4}]

\* nothing returned yet
NoResult == [calls |-> 0, first |-> <<>>, matching |-> <<>>]

\* a constructed scanner and coordinator that are not polled, and the arguments of
\* the direct calls
InitDirect(calls_explored, nothing_returned) ==
    /\ now = StartTime
    /\ disk = {}
    /\ conf \in [mode : ModeIs(SEQUENTIAL), advance_interval : {MaxInterval},
                 rescan_interval : {MaxInterval},
                 filter : {[include_tags |-> <<>>, exclude_tags |-> <<>>,
                            min_rating |-> 0]},
                 warn_cooldown : {WARN_COOLDOWN}]
    /\ cached_items = <<>>
    /\ last_scan = 0
    /\ last_warn_time = 0
    /\ state = AdvancementState(StartTime)
    /\ ret = NoCall
    /\ jumps = <<>>
    /\ calls = <<>>
    /\ args \in calls_explored
    /\ result = nothing_returned

PollState ==
    <<now, disk, conf, cached_items, last_scan, last_warn_time, state, ret, jumps,
      calls>>

\* matching = apply_filters(discovered_items, include_tags, exclude_tags, min_rating)
ApplyFilters ==
    /\ result.calls = 0
    /\ result' = [calls |-> 1, first |-> <<>>,
                  matching |-> apply_filters(args.discovered_items, args.include_tags,
                                             args.exclude_tags, args.min_rating)]
    /\ UNCHANGED <<args, PollState>>

\* apply_filters called once more, on what it returned, with the same criteria
ApplyFiltersAgain ==
    /\ result.calls = 1
    /\ result' = [calls |-> 2, first |-> result.matching,
                  matching |-> apply_filters(result.matching, args.include_tags,
                                             args.exclude_tags, args.min_rating)]
    /\ UNCHANGED <<args, PollState>>

InitFilter == InitDirect(FilterCalls, NoResult)

NextFilter == ApplyFilters \/ ApplyFiltersAgain

SpecFilter == InitFilter /\ [][NextFilter]_vars

(***************************************************************************)
(* MediaScanner.scan and _read_metadata over a directory tree              *)
(***************************************************************************)
\* the supported extensions, in the order the scan iterates over them
SUPPORTED_EXT == <<".jpg", ".jpeg", ".png">>

\* date = None
NoDate == "None"

\* int(rate) for the strings that occur; ok = FALSE stands for ValueError
IntOfStr(text) ==
    CASE text = "5" -> [ok |-> TRUE, val |-> 5]
      [] text = "7" -> [ok |-> TRUE, val |-> 7]
      [] text = "-1" -> [ok |-> TRUE, val |-> -1]
      [] OTHER -> [ok |-> FALSE, val |-> 0]

\* The XMP pass.  xmp.kind is "raises" when Image.open or getxmp raises, "absent"
\* when there is no packet or no Description, "desc" otherwise; xmp.subject tells
\* what subject/Bag/li holds ("malformed": a value whose .get raises); xmp.rate is
\* the value of Rating.
XmpPass(xmp) ==
    IF xmp.kind # "desc" \/ xmp.subject = "malformed"
    THEN [tags |-> <<>>, rating |-> 0]
    ELSE [tags |-> IF xmp.subject = "list" THEN xmp.tags
                   ELSE IF xmp.subject = "str" THEN <<xmp.tags[1]>>
                   ELSE <<>>,
          rating |-> IF xmp.rate.type = "int" THEN xmp.rate.num
                     ELSE IF xmp.rate.type = "str" /\ IntOfStr(xmp.rate.text).ok
                          THEN IntOfStr(xmp.rate.text).val
                     ELSE 0]

\* the exifread step: DateTimeOriginal, else Image DateTime, else None
ExifDatePass(exif_date) ==
    IF exif_date.kind = "raises" THEN NoDate
    ELSE IF exif_date.original # "" THEN exif_date.original
    ELSE IF exif_date.image # "" THEN exif_date.image
    ELSE NoDate

\* slip: the EXIF rating only fills in for a rating XMP left at 0
ExifRatingPassAsFallback(rating, exif_rating) ==
    IF exif_rating.kind = "int" /\ rating = 0 THEN exif_rating.num ELSE rating

\* the piexif step: an integer Rating of the 0th IFD replaces the rating
ExifRatingPass(rating, exif_rating) ==
    IF exif_rating.kind = "int" THEN exif_rating.num ELSE rating

\* slip: one try block around both EXIF steps, so a failing date step skips the
\* rating step
read_metadataOneExifTry(path, ext, content) ==
    LET xmp == XmpPass(content.xmp)
    IN  IF ext \notin {".jpg", ".jpeg"} \/ content.gone
        THEN [path |-> path, tags |-> xmp.tags, rating |-> xmp.rating,
              date |-> NoDate]
        ELSE [path |-> path, tags |-> xmp.tags,
              rating |-> IF content.exif_date.kind = "raises" THEN xmp.rating
                         ELSE ExifRatingPass(xmp.rating, content.exif_rating),
              date |-> ExifDatePass(content.exif_date)]

\* MediaScanner._read_metadata; content.gone: the file stopped being readable after
\* the scan's own check
read_metadata(path, ext, content) ==
    LET xmp == XmpPass(content.xmp)
    IN  IF ext \notin {".jpg", ".jpeg"} \/ content.gone
        THEN [path |-> path, tags |-> xmp.tags, rating |-> xmp.rating,
              date |-> NoDate]
        ELSE [path |-> path, tags |-> xmp.tags,
              rating |-> ExifRatingPass(xmp.rating, content.exif_rating),
              date |-> ExifDatePass(content.exif_date)]

RECURSIVE SortedByPath(_)
SortedByPath(entries) ==
    IF entries = {} THEN <<>>
    ELSE LET e == CHOOSE x \in entries : \A y \in entries : x.path <= y.path
         IN  <<e>> \o SortedByPath(entries \ {e})

\* root_path.rglob("*" + ext): the entries below a root with that extension
rglob(entries, ext) == SortedByPath({e \in entries : e.ext = ext})

\* the body of the loop over the paths rglob yields: unreadable entries are
\* skipped, the others read
RECURSIVE ReadAll(_)
ReadAll(listing) ==
    IF listing = <<>> THEN <<>>
    ELSE (IF Head(listing).readable
          THEN <<read_metadata(Head(listing).path, Head(listing).ext,
                               Head(listing).content)>>
          ELSE <<>>)
         \o ReadAll(Tail(listing))

\* the loop "for ext in SUPPORTED_EXT" over one root
ScanDir(entries) ==
    ReadAll(rglob(entries, SUPPORTED_EXT[1]))
        \o ReadAll(rglob(entries, SUPPORTED_EXT[2]))
        \o ReadAll(rglob(entries, SUPPORTED_EXT[3]))

\* slip: the scan ends at the first root that is no directory
RECURSIVE ScanRootsStoppingAtBadRoot(_, _)
ScanRootsStoppingAtBadRoot(roots, tree) ==
    IF roots = <<>> \/ ~tree[Head(roots)].is_dir THEN <<>>
    ELSE ScanDir(tree[Head(roots)].entries)
             \o ScanRootsStoppingAtBadRoot(Tail(roots), tree)

\* MediaScanner.scan for self.roots = roots over the directory tree
RECURSIVE ScanRoots(_, _)
ScanRoots(roots, tree) ==
    IF roots = <<>> THEN <<>>
    ELSE (IF tree[Head(roots)].is_dir THEN ScanDir(tree[Head(roots)].entries)
          ELSE <<>>)
         \o ScanRoots(Tail(roots), tree)

\* the ScanResult scan_and_filter builds
ScanResult(discovered, matching) ==
    [discovered |-> discovered, matching |-> matching,
     discovered_count |-> Len(discovered), matching_count |-> Len(matching)]

\* what a new MediaScanner(roots) without filters reports of its first scan
FirstScan(roots, tree) ==
    LET discovered == ScanRoots(roots, tree)
    IN  ScanResult(discovered, apply_filters(discovered, <<>>, <<>>, 0))

\* values of the XMP Rating field: num is the number the value stands for
NoRate == [type |-> "none", num |-> 0, text |-> ""]

XmpRates ==
    { NoRate,
      [type |-> "int", num |-> 3, text |-> ""],
      [type |-> "int", num |-> -1, text |-> ""],
      [type |-> "str", num |-> 5, text |-> "5"],
      [type |-> "str", num |-> 7, text |-> "7"],
      [type |-> "str", num |-> 0, text |-> "abc"],
      [type |-> "float", num |-> 4, text |-> ""] }

XmpPackets ==
    { [kind |-> k, subject |-> "absent", tags |-> <<>>, rate |-> NoRate] :
        k \in {"raises", "absent"} }
    \cup { [kind |-> "desc", subject |-> sj[1], tags |-> sj[2], rate |-> r] :
             sj \in { <<"list", <<"Vacation", "family">> >>,
                      <<"str", <<"vacation">> >>,
                      <<"absent", <<>> >>,
                      <<"malformed", <<>> >> },
             r \in XmpRates }

\* what exifread finds: EXIF DateTimeOriginal and Image DateTime, "" when missing
ExifDates ==
    { [kind |-> "raises", original |-> "", image |-> ""],
      [kind |-> "read", original |-> "", image |-> ""],
      [kind |-> "read", original |-> "2024:05:01 10:00:00",
       image |-> "2024:06:01 12:00:00"],
      [kind |-> "read", original |-> "", image |-> "2024:06:01 12:00:00"] }

\* what piexif finds: "other" is a Rating that is no int
ExifRatings ==
    { [kind |-> k, num |-> 0] : k \in {"raises", "absent", "other"} }
    \cup { [kind |-> "int", num |-> n] : n \in {0, 4, 9} }

FileContents ==
    [xmp : XmpPackets, exif_date : ExifDates, exif_rating : ExifRatings,
     gone : BOOLEAN]

\* a file with tags and a rating in XMP and nothing else
Tagged(tags, rating) ==
    [xmp |-> [kind |-> "desc", subject |-> "list", tags |-> tags,
              rate |-> [type |-> "int", num |-> rating, text |-> ""]],
     exif_date |-> [kind |-> "read", original |-> "", image |-> ""],
     exif_rating |-> [kind |-> "absent", num |-> 0],
     gone |-> FALSE]

Entry(path, ext, readable, content) ==
    [path |-> path, ext |-> ext, readable |-> readable, content |-> content]

\* directory entries that can lie below root A: a broken symlink and a text file
\* among them
EntriesA ==
    { Entry(1, ".jpg", TRUE, Tagged(<<"Vacation">>, 5)),
      Entry(2, ".jpg", FALSE, Tagged(<<>>, 0)),
      Entry(3, ".txt", TRUE, Tagged(<<>>, 0)),
      Entry(7, ".jpeg", TRUE, Tagged(<<>>, 0)) }

\* and below root B
EntriesB ==
    { Entry(4, ".png", TRUE, Tagged(<<"vacation", "Family">>, 3)),
      Entry(5, ".jpeg", FALSE, Tagged(<<>>, 0)),
      Entry(6, ".txt", TRUE, Tagged(<<>>, 0)) }

\* the configured roots: A and B are directories, C does not exist
RootNames == {"A", "B", "C"}

Tree(a, b) ==
    [r \in RootNames |->
        CASE r = "A" -> [is_dir |-> TRUE, entries |-> a]
          [] r = "B" -> [is_dir |-> TRUE, entries |-> b]
          [] OTHER -> [is_dir |-> FALSE, entries |-> {}]]

\* the scans explored: lists of roots over directory trees
ScanCalls ==
    [roots : SeqsUpTo(RootNames, MaxRoots),
     tree : {Tree(a, b) : a \in SUBSET EntriesA, b \in SUBSET EntriesB}]

\* one readable image file below root A, with any metadata
ExtractCalls ==
    [roots : {<<"A">>},
     tree : {Tree({Entry(1, ext, TRUE, content)}, {}) :
                ext \in {".jpg", ".png"}, content \in FileContents}]

NotScanned ==
    [done |-> {}, all |-> ScanResult(<<>>, <<>>), each |-> <<>>,
     existing |-> ScanResult(<<>>, <<>>)]

\* the first scan of a new MediaScanner(args.roots)
ScanAll ==
    /\ "all" \notin result.done
    /\ result' = [result EXCEPT !.done = @ \cup {"all"},
                                !.all = FirstScan(args.roots, args.tree)]
    /\ UNCHANGED <<args, PollState>>

\* the first scans of new scanners MediaScanner([root]), one for each root of the
\* list
ScanEach ==
    /\ "each" \notin result.done
    /\ result' = [result EXCEPT
                     !.done = @ \cup {"each"},
                     !.each = [i \in 1..Len(args.roots) |->
                                  FirstScan(<<args.roots[i]>>, args.tree)]]
    /\ UNCHANGED <<args, PollState>>

IsDir(root) == args.tree[root].is_dir

\* the first scan of a new scanner configured with the roots that are directories
ScanExisting ==
    /\ "existing" \notin result.done
    /\ result' = [result EXCEPT
                     !.done = @ \cup {"existing"},
                     !.existing = FirstScan(SelectSeq(args.roots, IsDir), args.tree)]
    /\ UNCHANGED <<args, PollState>>

InitScan == InitDirect(ScanCalls, NotScanned)

NextScan == ScanAll \/ ScanEach \/ ScanExisting

\* scans of lists of roots, together and one by one
SpecScan == InitScan /\ [][NextScan]_vars

InitExtract == InitDirect(ExtractCalls, NotScanned)

NextExtract == ScanAll

\* the scan of a directory holding one image file
SpecExtract == InitExtract /\ [][NextExtract]_vars

(***************************************************************************)
(* scan_and_filter run by two executor threads on one MediaScanner.        *)
(* async_update_data hands every call to hass.async_add_executor_job and   *)
(* neither it nor the scanner holds a lock, so a second refresh that       *)
(* arrives while the first awaits its job runs scan_and_filter in another  *)
(* worker thread; the interpreter may switch threads between any two       *)
(* statements.  args holds each thread's position and locals.              *)
(***************************************************************************)
Threads == {"worker1", "worker2"}

\* a thread that is not inside scan_and_filter
IdleThread == [pc |-> "idle", current_time |-> 0, discovered_items |-> <<>>]

\* what a scan can find
OverlapFiles == {{}, {1}}

\* items_at: current_time of the call whose scan result is in cached_items;
\* torn: a call has read cached_items of one scan together with last_scan of another
NothingObserved == [items_at |-> 0, torn |-> FALSE]

CoordinatorState == <<state, ret, jumps, calls>>

\* lines 70-73: read the clock and test the cache
Enter(t) ==
    /\ args[t].pc = "idle"
    /\ LET stale == CacheStale(cached_items, now, last_scan, conf.rescan_interval)
       IN  args' = [args EXCEPT ![t] =
                       [pc |-> IF stale THEN "scan" ELSE "filter",
                        current_time |-> now,
                        discovered_items |-> IF stale THEN <<>> ELSE cached_items]]
    /\ result' = [result EXCEPT !.torn =
                      result.torn \/ (cached_items # <<>> /\ result.items_at # last_scan)]
    /\ UNCHANGED <<now, disk, conf, cached_items, last_scan, last_warn_time,
                   CoordinatorState>>

\* line 75: self.scan() returns
ScanReturns(t) ==
    /\ args[t].pc = "scan"
    /\ \E files \in OverlapFiles :
         /\ args' = [args EXCEPT ![t].pc = "store_items",
                                 ![t].discovered_items = scan(files)]
         /\ disk' = files
    /\ UNCHANGED <<now, conf, cached_items, last_scan, last_warn_time, result,
                   CoordinatorState>>

\* line 75: self.scan() raises (rglob on a directory that cannot be listed), and
\* the exception leaves scan_and_filter
ScanRaises(t) ==
    /\ args[t].pc = "scan"
    /\ args' = [args EXCEPT ![t] = IdleThread]
    /\ UNCHANGED <<now, disk, conf, cached_items, last_scan, last_warn_time, result,
                   CoordinatorState>>

\* line 76: self.cached_items = discovered_items
StoreItems(t) ==
    /\ args[t].pc = "store_items"
    /\ cached_items' = args[t].discovered_items
    /\ result' = [result EXCEPT !.items_at = args[t].current_time]
    /\ args' = [args EXCEPT ![t].pc = "store_time"]
    /\ UNCHANGED <<now, disk, conf, last_scan, last_warn_time, CoordinatorState>>

\* line 77: self.last_scan = current_time
StoreTime(t) ==
    /\ args[t].pc = "store_time"
    /\ last_scan' = args[t].current_time
    /\ args' = [args EXCEPT ![t].pc = "filter"]
    /\ UNCHANGED <<now, disk, conf, cached_items, last_warn_time, result,
                   CoordinatorState>>

\* lines 82-106: filter, warn, return
FilterAndReturn(t) ==
    /\ args[t].pc = "filter"
    /\ last_warn_time' =
           NextWarnTime(apply_filters(args[t].discovered_items, conf.filter.include_tags,
                                      conf.filter.exclude_tags, conf.filter.min_rating),
                        args[t].current_time, last_warn_time, conf.warn_cooldown)
    /\ args' = [args EXCEPT ![t] = IdleThread]
    /\ UNCHANGED <<now, disk, conf, cached_items, last_scan, result, CoordinatorState>>

\* a second of wall clock passes
ClockTick ==
    /\ now < StartTime + MaxTime
    /\ now' = now + 1
    /\ UNCHANGED <<disk, conf, cached_items, last_scan, last_warn_time, args, result,
                   CoordinatorState>>

InitOverlap == InitDirect({[t \in Threads |-> IdleThread]}, NothingObserved)

NextOverlap ==
    \/ \E t \in Threads : Enter(t)
    \/ \E t \in Threads : ScanReturns(t)
    \/ \E t \in Threads : ScanRaises(t)
    \/ \E t \in Threads : StoreItems(t)
    \/ \E t \in Threads : StoreTime(t)
    \/ \E t \in Threads : FilterAndReturn(t)
    \/ ClockTick

SpecOverlap == InitOverlap /\ [][NextOverlap]_vars

(***************************************************************************)
(* SlideshowImageView.get (slideshow_helper/http.py).  A path string is    *)
(* the sequence of its components, the pieces between the slashes; an      *)
(* absolute path is written without the empty piece before its first       *)
(* slash.  The file system is fixed: the media directory /photos, its      *)
(* sibling /photos_private, /etc, and a symbolic link inside the media     *)
(* directory that points out of it.                                        *)
(***************************************************************************)
\* the pieces a requested image_path is made of, between its _SLASH_ marks
Names ==
    {"", ".", "..", "photos", "photos_private", "etc", "a.jpg", "b.jpg", "link.jpg"}

Dirs == {<<>>, <<"photos">>, <<"photos_private">>, <<"etc">>}
ReadableFiles ==
    {<<"photos", "a.jpg">>, <<"photos_private", "a.jpg">>, <<"etc", "a.jpg">>}
\* a regular file the server process may not open
UnreadableFiles == {<<"photos", "b.jpg">>}
Links == {<<"photos", "link.jpg">>}
LinkTarget(path) == <<"photos_private", "a.jpg">>

\* no such file or directory
Missing == <<"">>

\* hass.data has no media_dir for the entry_id
NotConfigured == <<"">>

\* str.startswith on the names that occur
StrStartsWith(s, prefix) ==
    \/ prefix = s
    \/ prefix = ""
    \/ prefix = "photos" /\ s = "photos_private"
    \/ prefix = "." /\ s = ".."

\* a.startswith(b) for two normalised absolute paths: b ends inside a component
\* of a or at the end of one
PathStartsWith(a, b) ==
    \/ b = <<>>
    \/ /\ Len(a) >= Len(b)
       /\ \A i \in 1..(Len(b) - 1) : a[i] = b[i]
       /\ StrStartsWith(a[Len(b)], b[Len(b)])

\* image_path.replace("_SLASH_", "/"), then read as a path: a first piece that
\* is empty means the path starts with a slash
IsAbsolute(image_path) == Len(image_path) >= 2 /\ image_path[1] = ""

\* os.path.join(media_dir, image_path)
PathJoin(media_dir, image_path) ==
    IF IsAbsolute(image_path) THEN Tail(image_path) ELSE media_dir \o image_path

RECURSIVE NormFrom(_, _)
NormFrom(done, rest) ==
    IF rest = <<>> THEN done
    ELSE LET c == Head(rest)
         IN  NormFrom(IF c \in {"", "."} THEN done
                      ELSE IF c = ".."
                           THEN (IF done = <<>> THEN <<>>
                                 ELSE SubSeq(done, 1, Len(done) - 1))
                      ELSE Append(done, c),
                      Tail(rest))

\* os.path.abspath of an absolute path: the components are normalised as text,
\* links are not followed
abspath(path) == NormFrom(<<>>, path)

\* "os.path.abspath(full_path).startswith(os.path.abspath(media_dir))"
TraversalGuard(full_path, media_dir) ==
    PathStartsWith(abspath(full_path), abspath(media_dir))

\* the file a path leads to when the operating system walks it from cur
RECURSIVE Walk(_, _)
Walk(cur, rest) ==
    IF rest = <<>> THEN cur
    ELSE IF cur \notin Dirs THEN Missing
    ELSE LET c == Head(rest)
             nxt == Append(cur, c)
         IN  IF c \in {"", "."} THEN Walk(cur, Tail(rest))
             ELSE IF c = ".."
                  THEN Walk(IF cur = <<>> THEN <<>> ELSE SubSeq(cur, 1, Len(cur) - 1),
                            Tail(rest))
             ELSE IF nxt \in Links THEN Walk(LinkTarget(nxt), Tail(rest))
             ELSE IF nxt \in Dirs \cup ReadableFiles \cup UnreadableFiles
                  THEN Walk(nxt, Tail(rest))
             ELSE Missing

\* os.path.isfile
isfile(path) == Walk(<<>>, path) \in ReadableFiles \cup UnreadableFiles

\* os.path.splitext(full_path)[1].lower() in [".jpg", ".jpeg"], on the names that
\* occur
ContentType(path) ==
    IF path[Len(path)] \in {"a.jpg", "b.jpg", "link.jpg"} THEN "image/jpeg" ELSE "image/png"

\* no file was opened
NoFile == <<"">>

NoResponse == [status |-> 0, read |-> NoFile, content_type |-> ""]

Response(status, read, content_type) ==
    [status |-> status, read |-> read, content_type |-> content_type]

\* the requests explored
ViewCalls ==
    [media_dir : {NotConfigured, <<"photos">>},
     image_path : SeqsUpTo(Names, MaxPathLen) \ {<<>>, <<"">>}]

\* GET /api/slideshow_helper/{entry_id}/{image_path}
get ==
    /\ result = NoResponse
    /\ LET full_path == PathJoin(args.media_dir, args.image_path)
           target == Walk(<<>>, full_path)
       IN  result' =
               IF args.media_dir = NotConfigured THEN Response(404, NoFile, "")
               ELSE IF ~TraversalGuard(full_path, args.media_dir)
                    THEN Response(403, NoFile, "")
               ELSE IF ~isfile(full_path) THEN Response(404, NoFile, "")
               ELSE IF target \in UnreadableFiles THEN Response(500, NoFile, "")
               ELSE Response(200, target, ContentType(full_path))
    /\ UNCHANGED <<args, PollState>>

InitView == InitDirect(ViewCalls, NoResponse)

NextView == get

SpecView == InitView /\ [][NextView]_vars

(***************************************************************************)
(* Claims.  Every step of the specifications above is one poll, so an      *)
(* action formula [][A]_vars states A of every poll: unprimed variables    *)
(* are the state the poll starts in, primed ones the state it leaves, and  *)
(* ret' is what it did and returned.                                       *)
(***************************************************************************)
Count(flags) == Cardinality({i \in 1..Len(flags) : flags[i]})

\* C1: after every poll whose matching set is non-empty and that returns, the
\* returned index lies in 0..len(matching)-1 and the current path is the path of
\* matching[index]; no poll fails with an out-of-range index, however the matching
\* set grew or shrank since the previous poll.
C1_IndexInBounds ==
    (ret.called /\ ret.matching # <<>>) =>
        /\ ret.err # "IndexError"
        /\ ret.err = "none" =>
             /\ state.advance_index \in 0..(Len(ret.matching) - 1)
             /\ ret.current_path = ret.matching[state.advance_index + 1].path

\* a poll that found the stored index beyond the end of a shrunken matching set
C1_Witness ==
    /\ ret.called /\ ret.clamped /\ ret.err = "none"
    /\ ret.matching # <<>>

UnknownModeConfigured == conf.mode.advance_mode \notin AdvanceModes

\* C4 as stated: with an advancement mode that is neither sequential nor
\* smart-random, every poll fails with the explicit error, whatever the matching set
\* and the time elapsed.
C4_ErrorOnEveryPoll ==
    (ret.called /\ UnknownModeConfigured) => ret.err = "ValueError"

\* C4 (amended): with such a mode a poll fails with the explicit error exactly when
\* its matching set is non-empty and the advance interval has elapsed; the other
\* polls return normally; no poll ever advances, so the advancement state stays as
\* constructed.
C4_ErrorExactlyWhenAdvanceDue ==
    UnknownModeConfigured =>
        /\ state = AdvancementState(StartTime)
        /\ ~ret.advanced
        /\ ret.called =>
             (ret.err = "ValueError"
                <=> (/\ ret.matching # <<>>
                     /\ now - state.last_advance >= conf.advance_interval))

\* a poll that raised the error
C4_Witness ==
    /\ UnknownModeConfigured
    /\ ret.called /\ ret.err = "ValueError"

\* C5: in sequential mode a poll with a non-empty matching set and
\* now - last_advance >= interval sets index to (old index + 1) mod len(matching)
\* and last_advance to now.
C5_SequentialAdvance ==
    [][(/\ conf.mode.advance_mode = SEQUENTIAL
        /\ ret'.matching # <<>>
        /\ now' - state.last_advance >= conf.advance_interval)
       => (/\ state'.advance_index = (state.advance_index + 1) % Len(ret'.matching)
           /\ state'.last_advance = now'
           /\ ret'.err = "none")]_vars

\* a sequential advance over several items that wrapped around to the first one
C5_Witness ==
    /\ conf.mode.advance_mode = SEQUENTIAL
    /\ ret.called /\ ret.advanced
    /\ Len(ret.matching) >= 2
    /\ state.advance_index = 0

\* C6: a poll with a non-empty matching set and now - last_advance < interval does
\* not advance in any mode: last_advance and the smart-random counter keep their
\* values, the index becomes index mod len(matching), and the item at that index is
\* returned.
C6_NoAdvanceBeforeInterval ==
    [][(/\ ret'.matching # <<>>
        /\ now' - state.last_advance < conf.advance_interval)
       => (/\ state'.last_advance = state.last_advance
           /\ state'.smart_random_counter = state.smart_random_counter
           /\ state'.advance_index = state.advance_index % Len(ret'.matching)
           /\ ret'.err = "none"
           /\ ret'.current_path = ret'.matching[state'.advance_index + 1].path)]_vars

\* a poll inside the interval whose clamp changed the index
C6_Witness ==
    /\ ret.called /\ ~ret.advanced /\ ret.clamped
    /\ ret.matching # <<>>
    /\ now - state.last_advance < conf.advance_interval

\* C7: a poll whose matching set is empty returns no current item without error and
\* leaves advance_index, last_advance and smart_random_counter as they were, in
\* every mode and whether or not the interval has elapsed.
C7_EmptyMatchingLeavesState ==
    [][(ret'.matching = <<>>)
       => (/\ state' = state
           /\ ret'.err = "none"
           /\ ret'.current_path = NoPath)]_vars

\* a poll with an empty matching set, after the interval has elapsed, with an index
\* an earlier advance had moved
C7_Witness ==
    /\ ret.called /\ ret.matching = <<>>
    /\ now - state.last_advance >= conf.advance_interval
    /\ state.advance_index > 0

SmartRandomAdvanceDue ==
    /\ conf.mode.advance_mode = SMART_RANDOM
    /\ ret'.matching # <<>>
    /\ now' - state.last_advance >= conf.advance_interval

\* C8: in smart-random mode with sequence length N >= 1, every block of N
\* consecutive polls that all have a non-empty matching set and an elapsed interval
\* holds exactly one random jump, and each poll of the block that does not jump
\* sets index to (index + 1) mod len(matching) and last_advance to now.
C8_OneJumpPerBlock ==
    [][SmartRandomAdvanceDue
       => (/\ Len(jumps') = conf.mode.smart_random_sequence_length
                => Count(jumps') = 1
           /\ ~ret'.jumped =>
                /\ state'.advance_index
                     = (state.advance_index + 1) % Len(ret'.matching)
                /\ state'.last_advance = now')]_vars

\* a full block of N >= 2 polls that begins with the jump and goes on sequentially
C8_Witness ==
    /\ conf.mode.advance_mode = SMART_RANDOM
    /\ conf.mode.smart_random_sequence_length >= 2
    /\ Len(jumps) = conf.mode.smart_random_sequence_length
    /\ jumps[1] /\ ~ret.jumped /\ ret.advanced

\* C9: in smart-random mode a poll with an elapsed interval increments the counter
\* first; if the counter then is >= sequence_length the index after the poll is the
\* randomly picked value and the counter is 0, otherwise the index is
\* (index + 1) mod len(matching); in both cases last_advance becomes now.
C9_JumpLandsOnPick ==
    [][SmartRandomAdvanceDue
       => (/\ state'.last_advance = now'
           /\ IF state.smart_random_counter + 1
                   >= conf.mode.smart_random_sequence_length
              THEN /\ state'.advance_index = ret'.pick
                   /\ state'.smart_random_counter = 0
              ELSE /\ state'.advance_index
                        = (state.advance_index + 1) % Len(ret'.matching)
                   /\ state'.smart_random_counter
                        = state.smart_random_counter + 1)]_vars

\* C10: with the advance interval of the scenario, sequential mode, a fixed
\* non-empty matching set and one poll per second, every run of as many consecutive
\* polls as the interval has seconds holds exactly one advance, which moves the
\* index by one; the other polls leave the index unchanged.
C10_OneAdvancePerInterval ==
    [][ret'.called
       => (/\ Len(calls') = conf.advance_interval => Count(calls') = 1
           /\ state'.advance_index
                = IF ret'.advanced
                  THEN (state.advance_index + 1) % Len(ret'.matching)
                  ELSE state.advance_index)]_vars

\* a full run of polls with its one advance in second place, over several items
C10_Witness ==
    /\ Len(calls) = ScenarioInterval
    /\ calls[2]
    /\ Len(ret.matching) >= 2

\* C2: a poll with now - last_scan < rescan_interval after a scan was stored returns
\* the records of that scan unchanged and leaves last_scan unchanged.
C2_CacheHitReturnsStored ==
    [][(/\ last_scan # 0
        /\ ret'.scan_time - last_scan < conf.rescan_interval)
       => (/\ cached_items' = cached_items
           /\ last_scan' = last_scan)]_vars

\* C3: a poll scans the directories exactly when no scan is stored yet or
\* now - last_scan >= rescan_interval, and then stores the result with
\* last_scan = now; a stored result without records is not scanned again before.
C3_ScanExactlyWhenStale ==
    [][ret'.called
       => (/\ ret'.scanned
                <=> (\/ last_scan = 0
                     \/ ret'.scan_time - last_scan >= conf.rescan_interval)
           /\ ret'.scanned =>
                /\ last_scan' = ret'.scan_time
                /\ cached_items' = scan(disk'))]_vars

(***************************************************************************)
(* Claims about apply_filters                                              *)
(***************************************************************************)
\* the spellings of one tag: two tags are the same, case ignored, when they are
\* spellings of the same one
Spellings ==
    { {"vacation", "Vacation"}, {"family", "Family"}, {"private", "Private"},
      {"draft"} }

SameTag(a, b) == \E c \in Spellings : a \in c /\ b \in c

HasTag(item, t) == \E s \in Range(item.tags) : SameTag(s, t)

HasAllTags(item, tags) == \A t \in Range(tags) : HasTag(item, t)

HasSomeTag(item, tags) == \E t \in Range(tags) : HasTag(item, t)

\* C11: with a non-empty include_tags every record apply_filters returns carries,
\* case ignored, every tag of include_tags; a record that carries only some of them
\* is not returned.
C11_IncludeNeedsAllTags ==
    (result.calls >= 1 /\ args.include_tags # <<>>) =>
        \A item \in Range(result.matching) : HasAllTags(item, args.include_tags)

\* two include tags, a record with only one of them that was rejected, and a record
\* with both in another spelling that was returned
C11_Witness ==
    /\ result.calls = 1
    /\ Len(args.include_tags) = 2
    /\ \E item \in Range(args.discovered_items) :
           /\ HasSomeTag(item, args.include_tags)
           /\ ~HasAllTags(item, args.include_tags)
           /\ item \notin Range(result.matching)
    /\ \E item \in Range(result.matching) :
           \E t \in Range(args.include_tags) : t \notin Range(item.tags)

\* C12: no record apply_filters returns carries, case ignored, a tag of
\* exclude_tags: one excluded tag rejects a record that satisfies include_tags and
\* min_rating.
C12_ExcludeOnAnyTag ==
    result.calls >= 1 =>
        \A item \in Range(result.matching) : ~HasSomeTag(item, args.exclude_tags)

\* a record with all include tags and a sufficient rating, rejected for one of two
\* exclude tags that it carries in another spelling
C12_Witness ==
    /\ result.calls = 1
    /\ args.include_tags # <<>>
    /\ Len(args.exclude_tags) = 2
    /\ \E item \in Range(args.discovered_items) :
           /\ HasAllTags(item, args.include_tags)
           /\ item.rating >= args.min_rating
           /\ ~HasAllTags(item, args.exclude_tags)
           /\ \E t \in Range(args.exclude_tags) :
                  HasTag(item, t) /\ t \notin Range(item.tags)
           /\ item \notin Range(result.matching)

PassesTagRules(item) ==
    /\ HasAllTags(item, args.include_tags)
    /\ ~HasSomeTag(item, args.exclude_tags)

\* C13: every record apply_filters returns has rating >= min_rating, and every
\* input record with rating >= min_rating that passes the tag rules is returned, a
\* rating equal to min_rating included.
C13_RatingAtLeastMin ==
    result.calls = 1 =>
        /\ \A item \in Range(result.matching) : item.rating >= args.min_rating
        /\ \A item \in Range(args.discovered_items) :
               (item.rating >= args.min_rating /\ PassesTagRules(item))
                   => item \in Range(result.matching)

\* a record whose rating equals a positive min_rating was returned, one below was
\* rejected
C13_Witness ==
    /\ result.calls = 1
    /\ args.min_rating > 0
    /\ \E item \in Range(result.matching) : item.rating = args.min_rating
    /\ \E item \in Range(args.discovered_items) :
           PassesTagRules(item) /\ item.rating < args.min_rating

Returned(items, returned) ==
    LET IsReturned(item) == item \in Range(returned)
    IN  SelectSeq(items, IsReturned)

\* C14: apply_filters returns the records it accepts in their input order; applied
\* to its own result with the same criteria it returns that result; with empty
\* include_tags, empty exclude_tags and min_rating = 0 it returns the input list;
\* it changes neither its arguments nor any state of the scanner.
C14_OrderIdempotenceIdentity ==
    [][(result'.calls >= 1) =>
          /\ result'.calls = 1 =>
                /\ result'.matching = Returned(args.discovered_items, result'.matching)
                /\ (/\ args.include_tags = <<>>
                     /\ args.exclude_tags = <<>>
                     /\ args.min_rating = 0)
                       => result'.matching = args.discovered_items
          /\ result'.calls = 2 => result'.matching = result.matching
          /\ args' = args
          /\ <<cached_items, last_scan, last_warn_time>>'
                = <<cached_items, last_scan, last_warn_time>>]_vars

(***************************************************************************)
(* Claims about MediaScanner.scan                                          *)
(***************************************************************************)
\* the diagnostic counters of a scan result
CounterNames == {"failed_count", "non_image_file_count"}

Paired == {"all", "each"} \subseteq result.done

\* two different directories given as roots: disjoint, as no entry lies below both
DisjointRoots ==
    /\ Len(args.roots) = 2
    /\ args.roots[1] # args.roots[2]
    /\ IsDir(args.roots[1]) /\ IsDir(args.roots[2])

\* C15: scanning two disjoint roots together discovers the records of the two
\* separate scans taken together, order aside, and reports failed_count and
\* non_image_file_count equal to the sums of the separate scans' counters.
C15_DisjointRootsAdditive ==
    (Paired /\ DisjointRoots) =>
        /\ Range(result.all.discovered)
             = Range(result.each[1].discovered) \cup Range(result.each[2].discovered)
        /\ Len(result.all.discovered)
             = Len(result.each[1].discovered) + Len(result.each[2].discovered)
        /\ CounterNames \subseteq DOMAIN result.all
        /\ \A i \in 1..2 : CounterNames \subseteq DOMAIN result.each[i]
        /\ result.all.failed_count
             = result.each[1].failed_count + result.each[2].failed_count
        /\ result.all.non_image_file_count
             = result.each[1].non_image_file_count
                 + result.each[2].non_image_file_count

\* the classes of directory entries
AnyEntry(e) == TRUE

Unsupported(e) == e.ext \notin Range(SUPPORTED_EXT)

Unreadable(e) == e.ext \in Range(SUPPORTED_EXT) /\ ~e.readable

RECURSIVE SumSeq(_)
SumSeq(numbers) ==
    IF numbers = <<>> THEN 0 ELSE Head(numbers) + SumSeq(Tail(numbers))

\* the number of entries of a class met while the roots are walked one by one
EntriesEncountered(roots, InClass(_)) ==
    SumSeq([i \in 1..Len(roots) |->
               Cardinality({e \in args.tree[roots[i]].entries : InClass(e)})])

\* C16: a scan counts each file entry below its roots once, in one of three
\* classes: len(discovered) + failed_count + non_image_file_count is the number of
\* entries met, entries with an unsupported extension counting as non-image and
\* unreadable entries with a supported extension as failed.
C16_EveryEntryCounted ==
    "all" \in result.done =>
        /\ CounterNames \subseteq DOMAIN result.all
        /\ Len(result.all.discovered) + result.all.failed_count
             + result.all.non_image_file_count
             = EntriesEncountered(args.roots, AnyEntry)
        /\ result.all.non_image_file_count
             = EntriesEncountered(args.roots, Unsupported)
        /\ result.all.failed_count
             = EntriesEncountered(args.roots, Unreadable)

\* C17: a root that does not exist or is no directory is skipped: scanning a list of
\* roots gives the result of scanning the list without those roots.
C17_MissingRootsSkipped ==
    {"all", "existing"} \subseteq result.done => result.all = result.existing

\* a list with a missing root ahead of a directory whose images were discovered
C17_Witness ==
    /\ {"all", "existing"} \subseteq result.done
    /\ Len(args.roots) >= 2
    /\ ~IsDir(args.roots[1])
    /\ IsDir(args.roots[Len(args.roots)])
    /\ result.all.discovered # <<>>

(***************************************************************************)
(* Claims about _read_metadata, on the scan of a directory with one file   *)
(***************************************************************************)
TheFile == CHOOSE e \in args.tree["A"].entries : TRUE

TheRecord == result.all.discovered[1]

Extracted == "all" \in result.done

\* the XMP step failed: an exception ended it before it set a field
XmpFailed(c) ==
    c.xmp.kind = "raises" \/ (c.xmp.kind = "desc" /\ c.xmp.subject = "malformed")

XmpTagsRead(c) == IF XmpFailed(c) THEN <<>> ELSE c.xmp.tags

\* the strings that spell an integer
Numerals == {"5", "7", "-1"}

\* the XMP packet holds a rating: an integer, or a string that spells one
XmpHasRating(c) ==
    /\ ~XmpFailed(c)
    /\ \/ c.xmp.rate.type = "int"
       \/ c.xmp.rate.type = "str" /\ c.xmp.rate.text \in Numerals

XmpRatingRead(c) == IF XmpHasRating(c) THEN c.xmp.rate.num ELSE 0

\* the EXIF steps run on a JPEG that is still readable
ExifStepsRun(f) == f.ext \in {".jpg", ".jpeg"} /\ ~f.content.gone

ExifDateRead(f) ==
    IF ExifStepsRun(f) /\ f.content.exif_date.kind = "read"
    THEN (IF f.content.exif_date.original # "" THEN f.content.exif_date.original
          ELSE IF f.content.exif_date.image # "" THEN f.content.exif_date.image
          ELSE NoDate)
    ELSE NoDate

ExifHasRating(f) == ExifStepsRun(f) /\ f.content.exif_rating.kind = "int"

\* C18: whichever of the XMP, EXIF date and EXIF rating steps fail, the scan returns
\* one record for a readable image file; the field of a failed step keeps its
\* default (no tags, rating 0, no date) and the fields the other steps obtained are
\* kept.
C18_StepsFailSoft ==
    Extracted =>
        /\ Len(result.all.discovered) = 1
        /\ TheRecord.path = TheFile.path
        /\ TheRecord.tags = XmpTagsRead(TheFile.content)
        /\ TheRecord.date = ExifDateRead(TheFile)
        /\ ~ExifHasRating(TheFile)
             => TheRecord.rating = XmpRatingRead(TheFile.content)
        /\ (ExifHasRating(TheFile) /\ ~XmpHasRating(TheFile.content))
             => TheRecord.rating = TheFile.content.exif_rating.num

\* the XMP step and the EXIF date step failed, the EXIF rating was read and kept
C18_Witness ==
    /\ Extracted
    /\ XmpFailed(TheFile.content)
    /\ ExifStepsRun(TheFile)
    /\ TheFile.content.exif_date.kind = "raises"
    /\ ExifHasRating(TheFile)
    /\ TheRecord.rating = 4
    /\ TheRecord.tags = <<>> /\ TheRecord.date = NoDate

BothRatings == Extracted /\ XmpHasRating(TheFile.content) /\ ExifHasRating(TheFile)

\* C19 as stated: for a JPEG with an XMP rating and an EXIF rating the EXIF rating is
\* used only if the XMP pass set no non-zero rating; a non-zero XMP rating is the
\* record's rating.
C19_ExifRatingOnlyFillsIn ==
    BothRatings =>
        TheRecord.rating = IF XmpRatingRead(TheFile.content) # 0
                           THEN XmpRatingRead(TheFile.content)
                           ELSE TheFile.content.exif_rating.num

\* C19 (amended): for a JPEG with an XMP rating and an integer EXIF rating the
\* record's rating is the EXIF rating, whether or not the XMP rating is zero; the
\* XMP rating is the record's rating when no integer EXIF rating is read.
C19_ExifRatingReplaces ==
    /\ BothRatings => TheRecord.rating = TheFile.content.exif_rating.num
    /\ (Extracted /\ XmpHasRating(TheFile.content) /\ ~ExifHasRating(TheFile))
         => TheRecord.rating = XmpRatingRead(TheFile.content)

\* a JPEG with a non-zero XMP rating whose record has the EXIF rating 0
C19_Witness ==
    /\ BothRatings
    /\ XmpRatingRead(TheFile.content) > 0
    /\ TheFile.content.exif_rating.num = 0
    /\ TheRecord.rating = 0

\* C20: every record of a scan has a rating in 0..5, whatever integer or string the
\* XMP Rating field or the EXIF rating field holds.
C20_RatingInRange ==
    Extracted => \A i \in 1..Len(result.all.discovered) :
                     result.all.discovered[i].rating \in 0..5

(***************************************************************************)
(* Claims about the no-match warning, on the polls of the warning scenario *)
(***************************************************************************)
\* polls i..j all had an empty filtered view
EmptyStretch(i, j) == \A k \in i..j : calls[k].empty

(* C21: over polls whose filtered view stays empty the warning is emitted  *)
(* on the first of them and then not again before warn_cooldown has passed *)
(* since the last emitted warning (a poll inside that window emits         *)
(* nothing, a poll at or after its end emits it again), whether the polls  *)
(* rescan or are served from the cache.                                    *)
C21_WarnOncePerCooldown ==
    \A j \in 1..Len(calls) :
        calls[j].empty =>
            /\ (j = 1 \/ ~calls[j - 1].empty) => calls[j].warned
            /\ \A i \in 1..(j - 1) :
                   ( /\ EmptyStretch(i, j)
                     /\ calls[i].warned
                     /\ \A k \in (i + 1)..(j - 1) : ~calls[k].warned )
                   => (calls[j].warned <=> calls[j].t - calls[i].t >= WARN_COOLDOWN)

\* warned, silent inside the window on a poll served from the cache, warned again
C21_Witness ==
    /\ Len(calls) = 3
    /\ EmptyStretch(1, 3)
    /\ calls[1].warned /\ ~calls[2].warned /\ calls[3].warned
    /\ cached_items # <<>>
    /\ calls[2].t - calls[1].t < conf.rescan_interval

(* C22: once a poll has had a non-empty filtered view the cooldown is      *)
(* reset: the next poll with an empty filtered view emits the warning at   *)
(* once, however recently the previous warning was emitted.                *)
C22_NonEmptyResetsCooldown ==
    \A j \in 2..Len(calls) :
        (calls[j].empty /\ ~calls[j - 1].empty) => calls[j].warned

\* two warnings less than a cooldown apart, images found in between
C22_Witness ==
    /\ Len(calls) = 3
    /\ calls[1].warned /\ ~calls[2].empty /\ calls[3].warned
    /\ calls[3].t - calls[1].t < WARN_COOLDOWN

(***************************************************************************)
(* Claims about the replacement of the scan cache                          *)
(***************************************************************************)
ScanInFlight == {t \in Threads : args[t].pc = "scan"}

(* C23: the cache is replaced atomically: a scan that fails before it      *)
(* returns leaves cached_items and last_scan as they were, and no call     *)
(* ever reads cached_items of one scan together with last_scan of another. *)
C23_CacheReplacedAtomically ==
    /\ [](~result.torn)
    /\ [][\A t \in Threads :
             (args[t].pc = "scan" /\ args'[t].pc = "idle")
             => (cached_items' = cached_items /\ last_scan' = last_scan)]_vars

(* C24: at most one directory scan is in flight for one MediaScanner, also *)
(* when two refreshes overlap while the cache is stale.                    *)
C24_OneScanInFlight == Cardinality(ScanInFlight) <= 1

(***************************************************************************)
(* Claims about the records of one scan                                    *)
(***************************************************************************)
(* C25: within the discovered list of one scan no two records have the     *)
(* same path, for every list of roots.                                     *)
C25_PathUniqueInScan ==
    "all" \in result.done =>
        \A i, j \in 1..Len(result.all.discovered) :
            result.all.discovered[i].path = result.all.discovered[j].path => i = j

(***************************************************************************)
(* Claims about SlideshowImageView.get                                     *)
(***************************************************************************)
\* the path lies in the directory or is the directory
Inside(path, dir) == Len(path) >= Len(dir) /\ SubSeq(path, 1, Len(dir)) = dir

\* where the requested path resolves to: the file the operating system finds, or
\* the normalised path when there is none
ResolvedPath ==
    LET full_path == PathJoin(args.media_dir, args.image_path)
    IN  IF Walk(<<>>, full_path) # Missing THEN Walk(<<>>, full_path)
        ELSE abspath(full_path)

(* C26: the view reads and returns file bytes only when the resolved path  *)
(* of the request lies inside the configured media directory; for every    *)
(* image_path that resolves outside it, it answers Forbidden and reads no  *)
(* file.                                                                   *)
C26_ServesOnlyInsideMediaDir ==
    (result # NoResponse /\ args.media_dir # NotConfigured) =>
        /\ result.read # NoFile => Inside(result.read, args.media_dir)
        /\ ~Inside(ResolvedPath, args.media_dir) =>
               (result.status = 403 /\ result.read = NoFile)

(***************************************************************************)
(* Claims about the advancement state, continued                           *)
(***************************************************************************)
(* C27: a poll that raises the unknown-mode error leaves the advancement   *)
(* state (advance_index, last_advance, smart_random_counter) exactly as it *)
(* was before the poll.                                                    *)
C27_ErrorLeavesState ==
    [][ret'.err = "ValueError" => state' = state]_vars

\* a poll raised although files had been found and time had passed
C27_Witness ==
    /\ UnknownModeConfigured
    /\ ret.err = "ValueError"
    /\ ret.matching # <<>>
    /\ now > state.last_advance

(* C28: in smart-random mode with sequence length N >= 1 the counter is in *)
(* 0..N-1 after every poll, and a poll changes it only when its matching   *)
(* set is non-empty and the advance interval has elapsed.                  *)
C28_CounterInRange ==
    [][(conf.mode.advance_mode = SMART_RANDOM
          /\ conf.mode.smart_random_sequence_length >= 1)
       => (/\ state'.smart_random_counter \in
                 0..(conf.mode.smart_random_sequence_length - 1)
           /\ state'.smart_random_counter # state.smart_random_counter
                 => SmartRandomAdvanceDue)]_vars

\* the counter at its largest value, then back at 0 after a jump
C28_Witness ==
    /\ conf.mode.advance_mode = SMART_RANDOM
    /\ conf.mode.smart_random_sequence_length >= 2
    /\ ret.advanced /\ ret.jumped
    /\ state.smart_random_counter = 0
    /\ Len(jumps) >= 2

(***************************************************************************)
(* Claims about polls after a stretch of empty matching sets, on the polls *)
(* of the empty-stretch scenario                                           *)
(***************************************************************************)
\* the state poll j found
IndexBefore(j) == IF j = 1 THEN 0 ELSE calls[j - 1].advance_index
LastAdvanceBefore(j) == IF j = 1 THEN StartTime ELSE calls[j - 1].last_advance

\* polls i..j-1 saw an empty matching set, for at least the advance interval when
\* poll j sees a non-empty one
FirstAfterEmptyStretch(i, j) ==
    /\ \A k \in i..(j - 1) : calls[k].n = 0
    /\ calls[j].n > 0
    /\ calls[j].t - calls[i].t >= conf.advance_interval

EmptyTicksKeepLastAdvance ==
    \A j \in 1..Len(calls) :
        calls[j].n = 0 => calls[j].last_advance = LastAdvanceBefore(j)

\* C29 as stated: empty polls never update last_advance, so the first poll with a
\* non-empty matching set after the set was empty for at least the interval
\* advances at once: it returns index (old index + 1) mod len(matching), not the
\* stored index, and sets last_advance to now.
C29_FirstNonEmptyAdvances ==
    /\ EmptyTicksKeepLastAdvance
    /\ \A j \in 2..Len(calls) : \A i \in 1..(j - 1) :
          FirstAfterEmptyStretch(i, j) =>
              /\ calls[j].advance_index = (IndexBefore(j) + 1) % calls[j].n
              /\ calls[j].last_advance = calls[j].t

(* C29 (amended): empty polls never update last_advance, so the first poll *)
(* with a non-empty matching set after the set was empty for at least the  *)
(* interval advances at once and sets last_advance to now, unless the mode *)
(* is unknown and it raises the error; in sequential mode, and in          *)
(* smart-random mode when the poll does not jump, it returns index         *)
(* (old index + 1) mod len(matching), not the stored index.                *)
C29_FirstNonEmptyAdvancesUnlessJump ==
    /\ EmptyTicksKeepLastAdvance
    /\ \A j \in 2..Len(calls) : \A i \in 1..(j - 1) :
          FirstAfterEmptyStretch(i, j) =>
              IF UnknownModeConfigured THEN calls[j].err = "ValueError"
              ELSE /\ calls[j].advanced
                   /\ calls[j].last_advance = calls[j].t
                   /\ ~calls[j].jumped =>
                        /\ calls[j].advance_index
                              = (IndexBefore(j) + 1) % calls[j].n
                        /\ calls[j].current_path = calls[j].advance_index + 1

\* sequential mode: an advance to index 1, an empty poll, then at once the advance
\* on to index 0 of two images
C29_Witness ==
    /\ conf.mode.advance_mode = SEQUENTIAL
    /\ Len(calls) = 3
    /\ calls[1].advance_index = 1
    /\ FirstAfterEmptyStretch(2, 3)
    /\ calls[3].n = 2 /\ calls[3].advance_index = 0

(***************************************************************************)
(* Claims about the cycle through a fixed matching set                     *)
(***************************************************************************)
MatchingPaths == {x.path : x \in Range(MatchingOn(disk, conf.filter))}

(* C30: in sequential mode over a fixed non-empty matching set of n items  *)
(* any n consecutive advancing polls return every index of 0..n-1 exactly  *)
(* once, and under repeated polls with advancing time every matching item  *)
(* eventually is the current item.                                         *)
C30_EveryItemShown ==
    /\ []((ret.called /\ Len(calls) = Len(ret.matching))
            => Range(calls) = 0..(Len(ret.matching) - 1))
    /\ \A p \in Paths : <>(p \in MatchingPaths => ret.current_path = p)

\* a full round of at least two advancing polls that began after the first wrap
C30_Witness ==
    /\ ret.called /\ ret.advanced
    /\ Len(ret.matching) >= 2
    /\ Len(calls) = Len(ret.matching)
    /\ calls[1] # 1

====
